---------------------------- MODULE Spec2Model ----------------------------
(***************************************************************************)
(* The loan-scoring service of backend/app/api.py: the start-up load of    *)
(* the two model artifacts, the five request handlers and the way their    *)
(* exceptions turn into responses.                                         *)
(*                                                                         *)
(* Python values are written as follows.  An optional value (None, an      *)
(* unbound global, the result of dict.get) is a set with at most one       *)
(* element.  A dict is a record; a key the dict lacks is a field the       *)
(* record lacks.  Raw request values are the text the client sent.         *)
(***************************************************************************)
EXTENDS Integers, Sequences, FiniteSets, Bags, TLC

VARIABLES
    disk,             \* the two artifact files as found at start-up
    phase,            \* "import" while the module body runs, then "serving"
    model_bureau,     \* module global (unbound = {})
    model_no_bureau,  \* module global (unbound = {})
    loads,            \* how many times joblib.load returned each artifact
    inflight,         \* bag of the requests the server holds
    probe             \* an earlier completed request, kept for comparison

vars == <<disk, phase, model_bureau, model_no_bureau, loads, inflight, probe>>

-----------------------------------------------------------------------------
(* Bounds *)

MaxInFlight == 2

-----------------------------------------------------------------------------
(* Values *)

Variants == {"bureau", "no_bureau"}

Ages == {20, 35}

Proba == 0..2

Grades == {"A", "B", "C", "D", "E", "F"}

NoValue == "None"

Corrupt == [variant |-> "corrupt", table |-> [a \in Ages |-> 0], threshold |-> 0]

(* What a loadable artifact file may hold: a classifier for one feature    *)
(* shape, with its fixed decision threshold.                               *)
Artifacts(v) ==
    { [variant |-> v, table |-> tb, threshold |-> 1] :
        tb \in { [a \in Ages |-> (a \div 15) - 1],
                 [a \in Ages |-> 3 - (a \div 15)] } }

(* dict.get(key) on a form dict, as an optional value *)
Get(d, key) == IF key \in DOMAIN d THEN {d[key]} ELSE {}

(* Python truthiness of an optional text value: None and "" are false *)
Truthy(opt) == opt # {} /\ opt # {""}

(* int(text) for the texts the requests carry; {} where int() raises *)
ParseInt(s) ==
    CASE s = "20" -> {20}
      [] s = "35" -> {35}
      [] OTHER -> {}

BureauJson == "{\"loanWithDelay\": 0, \"loanNoDelay\": 0}"

BadBureauJson == "{\"loanWithDelay\": \"x\", \"loanNoDelay\": 0}"

BureauData == [loanWithDelay |-> 0, loanNoDelay |-> 0]

-----------------------------------------------------------------------------
(* Requests *)

AgeTexts == {"20", "35"}

(* jsonable_encoder(await request.form()): text fields, some missing *)
FormBodies ==
    { [age |-> a, bureau |-> b] : a \in AgeTexts, b \in {"", "on"} }
    \cup { [age |-> a] : a \in AgeTexts }
    \cup { [bureau |-> "on"], [age |-> "abc", bureau |-> "on"],
           [age |-> "20", bureau |-> "garbage"] }

(* JSON bodies of /apiTest; [garbled |-> ...] is text that is not JSON *)
JsonBodies ==
    { [age |-> a, bureau |-> b] : a \in AgeTexts, b \in {"null", BureauJson} }
    \cup { [age |-> "20"], [bureau |-> BureauJson],
           [age |-> "abc", bureau |-> "null"],
           [age |-> "20", bureau |-> BadBureauJson],
           [garbled |-> "{"] }

NoBody == [empty |-> ""]

NoResponse ==
    [status |-> 0, location |-> NoValue, page |-> NoValue, grade |-> NoValue,
     json |-> {}, content |-> <<>>, exc |-> NoValue]

Received(endpoint, data) ==
    [endpoint |-> endpoint, data |-> data, pc |-> "received",
     response |-> NoResponse, calls |-> <<>>, binned |-> <<>>]

-----------------------------------------------------------------------------
(* Responses *)

(* An exception no handler is registered for: the server answers 500 *)
ServerError(exc) == [NoResponse EXCEPT !.status = 500, !.exc = exc]

TemplateResponse(page, grade) ==
    [NoResponse EXCEPT !.status = 200, !.page = page, !.grade = grade]

RedirectResponse(url) == [NoResponse EXCEPT !.status = 307, !.location = url]

JsonDict(key, value) == {[key |-> key, value |-> value]}


-----------------------------------------------------------------------------
(* Input Normalizer, Feature Engineer, Scorer and Grade Binner             *)
(* (app.helper and app.models)                                             *)

DummyRecord == [age |-> 0, bureau |-> {}]

Ok(value) == [exc |-> NoValue, value |-> value]

Raise(exc) == [exc |-> exc, value |-> DummyRecord]

(* The bureau structure a form carries: none for a missing or empty field, *)
(* the structure for a ticked one; anything else is malformed.             *)
FormBureau(reqData) ==
    LET raw == Get(reqData, "bureau") IN
    IF raw = {} \/ raw = {""} THEN Ok([age |-> 0, bureau |-> {}])
    ELSE IF raw = {"on"} THEN Ok([age |-> 0, bureau |-> {BureauData}])
    ELSE Raise("ValidationError")

(* Form dict -> typed dict; fails on a missing or malformed field *)
parse_request(reqData) ==
    LET age == IF "age" \in DOMAIN reqData THEN ParseInt(reqData.age) ELSE {}
        b == FormBureau(reqData)
    IN  IF age = {} THEN Raise("ValidationError")
        ELSE IF b.exc # NoValue THEN b
        ELSE Ok([age |-> CHOOSE a \in age : TRUE, bureau |-> b.value.bureau])

(* Typed dict -> ApplicantRecord *)
parse_input(d) == [age |-> d.age, bureau |-> d.bureau]

(* ApplicantRecord -> FeatureVector; its shape follows the record's bureau *)
feature_engineering(rec) ==
    [x |-> rec.age,
     shape |-> IF rec.bureau # {} THEN "bureau" ELSE "no_bureau"]

(* (score, proba, loan_dec), or a ScoringError on a shape mismatch *)
predict_score(t, model) ==
    IF t.shape # model.variant
    THEN [exc |-> "ScoringError", score |-> 0, proba |-> 0, loan_dec |-> FALSE]
    ELSE LET p == model.table[t.x] IN
         [exc |-> NoValue, score |-> p, proba |-> p,
          loan_dec |-> (p >= model.threshold)]

(* Probability and variant tag -> grade, with variant-specific bands *)
grade_binning(proba, tag) ==
    IF tag = "model_bureau"
    THEN (IF proba >= 2 THEN "A" ELSE IF proba >= 1 THEN "C" ELSE "E")
    ELSE (IF proba >= 2 THEN "B" ELSE IF proba >= 1 THEN "D" ELSE "F")

Str(s) == [kind |-> "str", s |-> s, n |-> 0]

Num(n) == [kind |-> "int", s |-> "", n |-> n]

Error(loc, msg) == <<[loc |-> loc, msg |-> msg]>>

JsonBureau(text) ==
    IF text = "null" THEN Ok([age |-> 0, bureau |-> {}])
    ELSE IF text = BureauJson THEN Ok([age |-> 0, bureau |-> {BureauData}])
    ELSE Raise("ValidationError")

(* The framework's parse of the body into RequestBody: the errors of a     *)
(* RequestValidationError, or none and req.dict()                          *)
RequestBody(body) ==
    IF "garbled" \in DOMAIN body
    THEN [errors |-> Error(<<Str("body"), Num(1)>>, "Expecting value"),
          value |-> DummyRecord]
    ELSE IF "age" \notin DOMAIN body
    THEN [errors |-> Error(<<Str("body"), Str("age")>>, "field required"),
          value |-> DummyRecord]
    ELSE IF ParseInt(body.age) = {}
    THEN [errors |-> Error(<<Str("body"), Str("age")>>,
                           "value is not a valid integer"),
          value |-> DummyRecord]
    ELSE LET b == IF "bureau" \in DOMAIN body THEN JsonBureau(body.bureau)
                  ELSE JsonBureau("null")
         IN  IF b.exc # NoValue
             THEN [errors |-> Error(<<Str("body"), Str("bureau"),
                                      Str("loanWithDelay")>>,
                                    "value is not a valid integer"),
                   value |-> DummyRecord]
             ELSE [errors |-> <<>>,
                   value |-> [age |-> CHOOSE a \in ParseInt(body.age) : TRUE,
                              bureau |-> b.value.bureau]]

-----------------------------------------------------------------------------
(* api.py *)

(* The registered exception handler: first error's message and loc[1] *)
validation_exception_handler(errors) ==
    LET content_msg == errors[1].msg
        loc == errors[1].loc
    IN  IF Len(loc) < 2 THEN ServerError("IndexError")
        ELSE LET content_loc == loc[2] IN
             IF content_loc.kind # "str" THEN ServerError("TypeError")
             ELSE [NoResponse EXCEPT
                     !.status = 422,
                     !.content = <<content_msg, ", field : ", content_loc.s>>]

(* The call predict_score(t, <global>): a NameError if the global is       *)
(* unbound, else the one invocation and what it returned                   *)
Scored(t, global) ==
    IF global = {}
    THEN [exc |-> "NameError", calls |-> <<>>, proba |-> 0, loan_dec |-> FALSE]
    ELSE LET model == CHOOSE m \in global : TRUE
             ps == predict_score(t, model)
         IN  [exc |-> ps.exc,
              calls |-> <<[model |-> model.variant, features |-> t]>>,
              proba |-> ps.proba, loan_dec |-> ps.loan_dec]

(* As PredictModel, but testing that the form has the key at all *)
PredictModel_ByKey(reqData) ==
    IF "bureau" \in DOMAIN reqData THEN model_bureau ELSE model_no_bureau

(* get_prediction: which global the branch taken passes to predict_score *)
PredictModel(reqData) ==
    IF Truthy(Get(reqData, "bureau")) THEN model_bureau ELSE model_no_bureau

(* As PredictTag, with the first branch's tag pasted into the second *)
PredictTag_Pasted(reqData) == "model_bureau"

(* get_prediction: the tag the branch taken passes to grade_binning *)
PredictTag(reqData) ==
    IF Truthy(Get(reqData, "bureau")) THEN "model_bureau" ELSE "model_no_bureau"

(* As ResultPage, approving grade A alone *)
ResultPage_OnlyA(grade) ==
    IF grade \in {"A"} THEN "result_approve.html" ELSE "result_reject.html"

ResultPage(grade) ==
    IF grade \in {"A", "B"} THEN "result_approve.html" ELSE "result_reject.html"

(* As Failed, with the exception swallowed and a default page rendered *)
Failed_Swallowed(exc, calls) ==
    [response |-> TemplateResponse("result_reject.html", "F"),
     calls |-> calls, binned |-> <<>>]

Failed(exc, calls) ==
    [response |-> ServerError(exc), calls |-> calls, binned |-> <<>>]

get_prediction(reqData) ==
    LET reqData_parsed == parse_request(reqData) IN
    IF reqData_parsed.exc # NoValue THEN Failed(reqData_parsed.exc, <<>>)
    ELSE
    LET t == feature_engineering(parse_input(reqData_parsed.value))
        sc == Scored(t, PredictModel(reqData))
    IN  IF sc.exc # NoValue THEN Failed(sc.exc, sc.calls)
        ELSE LET tag == PredictTag(reqData)
                 grade == grade_binning(sc.proba, tag)
             IN  [response |-> TemplateResponse(ResultPage(grade), grade),
                  calls |-> sc.calls,
                  binned |-> <<[proba |-> sc.proba, tag |-> tag]>>]

(* As TestingModel, with the two branches swapped *)
TestingModel_Swapped(req_dict) ==
    IF req_dict.bureau # {} THEN model_no_bureau ELSE model_bureau

(* testing: which global the branch taken passes to predict_score *)
TestingModel(req_dict) ==
    IF req_dict.bureau # {} THEN model_bureau ELSE model_no_bureau

(* As TestingBody, answering True whatever the model decided *)
TestingBody_Always(loan_dec) == JsonDict("LoanDecision", TRUE)

TestingBody(loan_dec) == JsonDict("LoanDecision", loan_dec)

testing(req_dict) ==
    LET t == feature_engineering(parse_input(req_dict))
        sc == Scored(t, TestingModel(req_dict))
    IN  IF sc.exc # NoValue THEN Failed(sc.exc, sc.calls)
        ELSE [response |-> [NoResponse EXCEPT !.status = 200,
                                              !.json = TestingBody(sc.loan_dec)],
              calls |-> sc.calls, binned |-> <<>>]

root == [response |-> RedirectResponse("/home"), calls |-> <<>>, binned |-> <<>>]

index_html ==
    [response |-> TemplateResponse("index.html", NoValue),
     calls |-> <<>>, binned |-> <<>>]

-----------------------------------------------------------------------------
(* The process *)

Requests ==
    { Received("/predict", d) : d \in FormBodies }
    \cup { Received("/apiTest", d) : d \in JsonBodies }
    \cup { Received("/", NoBody), Received("/home", NoBody) }

Loadable(v) == disk[v] # Corrupt

Init ==
    /\ disk \in { [bureau |-> b, no_bureau |-> n] :
                    b \in Artifacts("bureau") \cup {Corrupt},
                    n \in Artifacts("no_bureau") \cup {Corrupt} }
    /\ phase = "import"
    /\ model_bureau = {}
    /\ model_no_bureau = {}
    /\ loads = [v \in Variants |-> 0]
    /\ inflight = EmptyBag
    /\ probe = {}

(* The module body's try block: the second load runs only if the first     *)
(* returned; the bare except swallows the failure and serving starts.      *)
LoadModels ==
    /\ phase = "import"
    /\ phase' = "serving"
    /\ IF Loadable("bureau")
       THEN /\ model_bureau' = {disk["bureau"]}
            /\ IF Loadable("no_bureau")
               THEN /\ model_no_bureau' = {disk["no_bureau"]}
                    /\ loads' = [bureau |-> loads["bureau"] + 1,
                                 no_bureau |-> loads["no_bureau"] + 1]
               ELSE /\ model_no_bureau' = model_no_bureau
                    /\ loads' = [loads EXCEPT !["bureau"] = @ + 1]
       ELSE UNCHANGED <<model_bureau, model_no_bureau, loads>>
    /\ UNCHANGED <<disk, inflight, probe>>

Accept ==
    /\ phase = "serving"
    /\ BagCardinality(inflight) < MaxInFlight
    /\ \E r \in Requests : inflight' = inflight (+) SetToBag({r})
    /\ UNCHANGED <<disk, phase, model_bureau, model_no_bureau, loads, probe>>

Pending(endpoint) ==
    { r \in BagToSet(inflight) : r.pc = "received" /\ r.endpoint = endpoint }

Completed == { r \in BagToSet(inflight) : r.pc = "done" }

Complete(r, result) ==
    inflight' = (inflight (-) SetToBag({r})) (+)
                SetToBag({[r EXCEPT !.pc = "done",
                                    !.response = result.response,
                                    !.calls = result.calls,
                                    !.binned = result.binned]})

Globals == <<disk, phase, model_bureau, model_no_bureau, loads>>

HandleRoot ==
    /\ \E r \in Pending("/") : Complete(r, root)
    /\ UNCHANGED <<Globals, probe>>

HandleIndexHtml ==
    /\ \E r \in Pending("/home") : Complete(r, index_html)
    /\ UNCHANGED <<Globals, probe>>

(* As HandlePredict, rebinding a global while handling the request *)
HandlePredict_Rebinds ==
    /\ \E r \in Pending("/predict") : Complete(r, get_prediction(r.data))
    /\ model_bureau' = model_no_bureau
    /\ UNCHANGED <<disk, phase, model_no_bureau, loads, probe>>

HandlePredict ==
    /\ \E r \in Pending("/predict") : Complete(r, get_prediction(r.data))
    /\ UNCHANGED <<Globals, probe>>

(* As HandleTesting, keeping the model it used in the other global *)
HandleTesting_Leaks ==
    /\ \E r \in Pending("/apiTest") :
          /\ RequestBody(r.data).errors = <<>>
          /\ Complete(r, testing(RequestBody(r.data).value))
          /\ IF RequestBody(r.data).value.bureau # {}
             THEN model_no_bureau' = model_bureau /\ UNCHANGED model_bureau
             ELSE model_bureau' = model_no_bureau /\ UNCHANGED model_no_bureau
    /\ UNCHANGED <<disk, phase, loads, probe>>

HandleTesting ==
    /\ \E r \in Pending("/apiTest") :
          /\ RequestBody(r.data).errors = <<>>
          /\ Complete(r, testing(RequestBody(r.data).value))
    /\ UNCHANGED <<Globals, probe>>

HandleValidationError ==
    /\ \E r \in Pending("/apiTest") :
          /\ RequestBody(r.data).errors # <<>>
          /\ Complete(r, [response |->
                            validation_exception_handler(RequestBody(r.data).errors),
                          calls |-> <<>>, binned |-> <<>>])
    /\ UNCHANGED <<Globals, probe>>

Outcome(r) == [endpoint |-> r.endpoint, data |-> r.data, response |-> r.response]

(* The response goes out and the request's objects are discarded *)
Send ==
    /\ \E r \in Completed : inflight' = inflight (-) SetToBag({r})
    /\ UNCHANGED <<Globals, probe>>

(* The record of the request passed the normalizer *)
Accepted(r) ==
    \/ r.endpoint = "/predict" /\ parse_request(r.data).exc = NoValue
    \/ r.endpoint = "/apiTest" /\ RequestBody(r.data).errors = <<>>

(* The client keeps the response to a well-formed submission, to compare a *)
(* later one with                                                          *)
Remember ==
    /\ \E r \in Completed :
          /\ Accepted(r)
          /\ probe' = {Outcome(r)}
    /\ probe' # probe
    /\ UNCHANGED <<Globals, inflight>>

Next ==
    \/ LoadModels
    \/ Accept
    \/ HandleRoot
    \/ HandleIndexHtml
    \/ HandlePredict
    \/ HandleTesting
    \/ HandleValidationError
    \/ Send
    \/ Remember

Spec == Init /\ [][Next]_vars

-----------------------------------------------------------------------------
(* What the claims speak of, read off the request as the client sent it    *)

Scoring == { r \in Completed : r.endpoint \in {"/predict", "/apiTest"} }

(* The record carries bureau data: a non-empty form field, a non-null      *)
(* JSON member                                                             *)
HasBureau(r) ==
    /\ "bureau" \in DOMAIN r.data
    /\ r.data.bureau \notin {"", "null"}

Required(r) == IF HasBureau(r) THEN "bureau" ELSE "no_bureau"

(* A field of the record is missing or malformed *)
InvalidRecord(r) ==
    /\ "garbled" \notin DOMAIN r.data
    /\ \/ "age" \notin DOMAIN r.data
       \/ r.data.age \notin AgeTexts
       \/ HasBureau(r) /\ r.data.bureau \notin {"on", BureauJson}

ValidRecord(r) == "garbled" \notin DOMAIN r.data /\ ~InvalidRecord(r)

CarriesResult(r) == r.response.grade # NoValue \/ r.response.json # {}

TagOf(variant) == IF variant = "bureau" THEN "model_bureau" ELSE "model_no_bureau"

-----------------------------------------------------------------------------
(* C1: on both endpoints, a request that reaches scoring is scored by the  *)
(* bureau-aware model if its record carries bureau data and by the         *)
(* bureau-absent model if it does not, never by the other one.             *)
C1_Routing ==
    \A r \in Scoring :
        \A i \in 1..Len(r.calls) : r.calls[i].model = Required(r)

C1_Witness ==
    \E r1, r2 \in Scoring :
        /\ r1.endpoint = "/predict" /\ r2.endpoint = "/apiTest"
        /\ HasBureau(r1) /\ ~HasBureau(r2)
        /\ r1.calls # <<>> /\ r2.calls # <<>>

(* C2: a request whose record has a missing or malformed field ends in a   *)
(* 422 response naming the field and the reason, never in a 5xx response   *)
(* and never in a score or decision.                                       *)
C2_InvalidGets422 ==
    \A r \in Scoring :
        InvalidRecord(r) =>
            /\ r.response.status = 422
            /\ Len(r.response.content) = 3
            /\ r.response.content[3] \in {"age", "bureau"}
            /\ ~CarriesResult(r)

(* C3: when exactly one artifact failed to load, a request that needs the  *)
(* failed variant fails without being scored by the other variant, and a   *)
(* request that needs the loadable variant is not made to fail.            *)
C3_OneLoadFailure ==
    (Loadable("bureau") # Loadable("no_bureau")) =>
        \A r \in Scoring :
            ValidRecord(r) =>
                IF Loadable(Required(r))
                THEN r.response.status = 200
                ELSE r.response.status = 500 /\ r.calls = <<>>

C5_PageByGrade ==
    \A r \in Scoring :
        (r.endpoint = "/predict" /\ r.response.status = 200) =>
            /\ r.response.grade \in Grades
            /\ r.response.page =
                 IF r.response.grade \in {"A", "B"}
                 THEN "result_approve.html" ELSE "result_reject.html"
            /\ Len(r.binned) = 1
            /\ r.response.grade = grade_binning(r.binned[1].proba, r.binned[1].tag)

C5_Witness ==
    \E r1, r2 \in Scoring :
        /\ r1.response.grade = "B" /\ r1.response.page = "result_approve.html"
        /\ r2.response.grade = "E" /\ r2.response.page = "result_reject.html"

C8_OneOutcome ==
    \A r \in Scoring :
        /\ Len(r.calls) <= 1
        /\ r.response.status \in {200, 422, 500}
        /\ CarriesResult(r) <=> r.response.status = 200
        /\ CarriesResult(r) => Len(r.calls) = 1
        /\ r.response.status = 200 =>
             (r.response.grade # NoValue) # (r.response.json # {})
        /\ r.response.status # 200 =>
             r.response.exc # NoValue \/ r.response.content # <<>>

C8_Witness ==
    \E r1, r2 \in Scoring :
        /\ r1.response.status = 200 /\ Len(r1.calls) = 1
        /\ r2.response.status = 500 /\ r2.endpoint = "/predict"

C10_TagMatchesModel ==
    \A r \in Scoring :
        \A i \in 1..Len(r.binned) :
            /\ Len(r.calls) = 1
            /\ r.binned[i].tag = TagOf(r.calls[1].model)
            /\ r.binned[i].proba =
                 predict_score(r.calls[1].features, disk[r.calls[1].model]).proba

C10_Witness ==
    \E r1, r2 \in Scoring :
        /\ r1.binned # <<>> /\ r1.binned[1].tag = "model_bureau"
        /\ r2.binned # <<>> /\ r2.binned[1].tag = "model_no_bureau"

=============================================================================
